---- MODULE Spec2Model ----
(***************************************************************************)
(* A model of simple_assistant.py: one command-line invocation of the      *)
(* assistant (main -> chat / analyze_image / generate_image), with the     *)
(* image-payload extraction of generate_image modelled step by step.       *)
(*                                                                         *)
(* Python values are tagged records [k |-> kind, v |-> content]; objects   *)
(* carry their attributes in a record f, and an attribute an object does   *)
(* not have is a name missing from DOMAIN f.  Strings are sequences of     *)
(* one-character strings, byte strings are sequences of 0..255.            *)
(***************************************************************************)
EXTENDS Integers, Sequences, FiniteSets, TLC

(***************************************************************************)
(* Bounds of the model.                                                    *)
(***************************************************************************)
\* the largest number of candidates in one response
MaxCands == 2
\* the largest number of parts in one response, over all its candidates
MaxParts == 2

(***************************************************************************)
(* Python values.                                                          *)
(***************************************************************************)
None == [k |-> "none", v |-> <<>>]
PyInt(n) == [k |-> "int", v |-> <<n>>]
Str(s) == [k |-> "str", v |-> s]
Bytes(s) == [k |-> "bytes", v |-> s]
ByteArray(s) == [k |-> "bytearray", v |-> s]
List(s) == [k |-> "list", v |-> s]
Obj(fields) == [k |-> "obj", f |-> fields]

\* getattr(x, name, default): only objects of the model carry attributes
GetAttr(x, name, default) ==
    IF x.k = "obj" /\ name \in DOMAIN x.f THEN x.f[name] ELSE default

\* the truth value Python gives a value in `if x`, `not x` and `x or y`
Truthy(x) ==
    CASE x.k = "none" -> FALSE
      [] x.k = "int" -> x.v[1] # 0
      [] x.k \in {"str", "bytes", "bytearray", "list"} -> Len(x.v) > 0
      [] OTHER -> TRUE

\* x or y
PyOr(x, y) == IF Truthy(x) THEN x ELSE y

\* iter(x) succeeds on sequences and raises TypeError on the rest
Iterable(x) == x.k \in {"str", "bytes", "bytearray", "list"}

\* the items a for loop (or list.extend) takes from an iterable
Items(x) ==
    CASE x.k = "list" -> x.v
      [] x.k = "str" -> [i \in 1..Len(x.v) |-> Str(<<x.v[i]>>)]
      [] OTHER -> [i \in 1..Len(x.v) |-> PyInt(x.v[i])]

Digits == <<"0", "1", "2", "3", "4", "5", "6", "7", "8", "9">>

\* str(x) for the values a mime_type or a text field holds in the model
PyStr(x) ==
    CASE x.k = "str" -> x.v
      [] x.k = "none" -> <<"N", "o", "n", "e">>
      [] x.k = "int" -> <<Digits[x.v[1] + 1]>>
      [] OTHER -> <<"<", "o", "b", "j", "e", "c", "t", ">">>

\* s.startswith(prefix)
StartsWith(s, prefix) ==
    Len(s) >= Len(prefix) /\ SubSeq(s, 1, Len(prefix)) = prefix

ImagePrefix == <<"i", "m", "a", "g", "e", "/">>

\* isinstance(data, (bytes, bytearray))
IsBytesLike(x) == x.k \in {"bytes", "bytearray"}

\* bytes(data)
ToBytes(x) == Bytes(x.v)

(***************************************************************************)
(* base64.b64decode(s) for a str s, validate=False: the string is encoded  *)
(* as ASCII (ValueError otherwise) and handed to binascii.a2b_base64,      *)
(* which skips characters outside the alphabet, stops at a completed pad   *)
(* sequence and raises binascii.Error when data characters are left over.  *)
(***************************************************************************)
B64Alphabet ==
    << "A", "B", "C", "D", "E", "F", "G", "H", "I", "J", "K", "L", "M",
       "N", "O", "P", "Q", "R", "S", "T", "U", "V", "W", "X", "Y", "Z",
       "a", "b", "c", "d", "e", "f", "g", "h", "i", "j", "k", "l", "m",
       "n", "o", "p", "q", "r", "s", "t", "u", "v", "w", "x", "y", "z",
       "0", "1", "2", "3", "4", "5", "6", "7", "8", "9", "+", "/" >>

\* a character outside ASCII is written as its code point
NonAscii == {"U+00E9"}

InAlphabet(c) == \E i \in 1..64 : B64Alphabet[i] = c

B64Value(c) == (CHOOSE i \in 1..64 : B64Alphabet[i] = c) - 1

RECURSIVE A2B(_, _, _, _, _, _)
A2B(s, i, quad, left, pads, acc) ==
    IF i > Len(s)
    THEN IF quad # 0 THEN [ok |-> FALSE, v |-> <<>>] ELSE [ok |-> TRUE, v |-> acc]
    ELSE IF s[i] = "="
         THEN IF quad >= 2 /\ quad + pads + 1 >= 4
              THEN [ok |-> TRUE, v |-> acc]
              ELSE A2B(s, i + 1, quad, left, IF quad >= 2 THEN pads + 1 ELSE pads, acc)
         ELSE IF ~InAlphabet(s[i])
              THEN A2B(s, i + 1, quad, left, pads, acc)
              ELSE LET c == B64Value(s[i]) IN
                   CASE quad = 0 -> A2B(s, i + 1, 1, c, 0, acc)
                     [] quad = 1 ->
                          A2B(s, i + 1, 2, c % 16, 0,
                              Append(acc, (left * 4 + c \div 16) % 256))
                     [] quad = 2 ->
                          A2B(s, i + 1, 3, c % 4, 0,
                              Append(acc, (left * 16 + c \div 4) % 256))
                     [] OTHER ->
                          A2B(s, i + 1, 0, 0, 0,
                              Append(acc, (left * 64 + c) % 256))

B64Decode(s) ==
    IF \E i \in 1..Len(s) : s[i] \in NonAscii
    THEN [ok |-> FALSE, v |-> <<>>]
    ELSE A2B(s, 1, 0, 0, 0, <<>>)

(***************************************************************************)
(* The extraction of generate_image, as functions of the values read.      *)
(***************************************************************************)
\* line 73: getattr(resp, "candidates", []) or []
Candidates(r) == PyOr(GetAttr(r, "candidates", List(<<>>)), List(<<>>))

\* lines 74-76: what one candidate adds to parts; ok is FALSE when
\* parts.extend(content.parts) raises TypeError
CandParts(cand) ==
    LET content == GetAttr(cand, "content", None) IN
    IF Truthy(content) /\ Truthy(GetAttr(content, "parts", None))
    THEN LET ps == GetAttr(content, "parts", None) IN
         IF Iterable(ps) THEN [ok |-> TRUE, add |-> Items(ps)]
                         ELSE [ok |-> FALSE, add |-> <<>>]
    ELSE [ok |-> TRUE, add |-> <<>>]

\* lines 72-76: the first loop over a sequence of candidates
RECURSIVE GatherFrom(_, _, _)
GatherFrom(cs, i, acc) ==
    IF i > Len(cs) THEN [ok |-> TRUE, parts |-> acc]
    ELSE LET g == CandParts(cs[i]) IN
         IF g.ok THEN GatherFrom(cs, i + 1, acc \o g.add)
                 ELSE [ok |-> FALSE, parts |-> acc]

\* lines 72-76 on a response; ok is FALSE when the loop raises
GatherParts(r) ==
    IF Iterable(Candidates(r)) THEN GatherFrom(Items(Candidates(r)), 1, <<>>)
                               ELSE [ok |-> FALSE, parts |-> <<>>]

\* InlineData with the second naming convention forgotten
InlineDataSnakeOnly(p) == GetAttr(p, "inline_data", None)

\* line 78: getattr(p, "inline_data", None) or getattr(p, "inlineData", None)
InlineData(p) == PyOr(GetAttr(p, "inline_data", None), GetAttr(p, "inlineData", None))

\* line 79: d and str(getattr(d, "mime_type", "")).startswith("image/")
IsImageData(d) ==
    Truthy(d) /\ StartsWith(PyStr(GetAttr(d, "mime_type", Str(<<>>))), ImagePrefix)

\* lines 78-85: what one part does to images: "append" a payload, "skip", or
\* "raise" (b64decode fails)
PartPayload(p) ==
    LET d == InlineData(p) IN
    IF ~IsImageData(d) THEN [act |-> "skip", v |-> None]
    ELSE LET data == GetAttr(d, "data", None) IN
         CASE IsBytesLike(data) -> [act |-> "append", v |-> ToBytes(data)]
           [] data.k = "str" ->
                LET r == B64Decode(data.v) IN
                IF r.ok THEN [act |-> "append", v |-> Bytes(r.v)]
                        ELSE [act |-> "raise", v |-> None]
           [] OTHER -> [act |-> "skip", v |-> None]

\* TopLevel with the `if not images` guard dropped
TopLevelAlways(imgs, r) ==
    LET data == GetAttr(r, "image", None) IN
    [images |-> IF Truthy(data) THEN <<data>> ELSE imgs, consulted |-> TRUE]

\* lines 90-93: the top-level fallback
TopLevel(imgs, r) ==
    IF imgs = <<>>
    THEN LET data == GetAttr(r, "image", None) IN
         [images |-> IF Truthy(data) THEN <<data>> ELSE imgs, consulted |-> TRUE]
    ELSE [images |-> imgs, consulted |-> FALSE]

\* line 101: Path.write_bytes takes memoryview(data), a TypeError for any
\* value without the buffer interface, before the file is opened
Writable(x) == IsBytesLike(x)

(***************************************************************************)
(* The command line, the environment and the file system.                  *)
(***************************************************************************)
\* A command-line word is the sequence of its "/"-separated segments.
Prog == <<"simple_assistant.py">>

PathPool ==
    { <<"missing.jpg">>, <<".", "missing.jpg">>, <<"pics", "", "cat.png">> }

ArgvPool ==
    { <<Prog>>,
      <<Prog, <<"help">>>>, <<Prog, <<"-h">>>>, <<Prog, <<"--help">>, <<"chat">>>>,
      <<Prog, <<"chat">>>>, <<Prog, <<"chat">>, <<"hi">>>>,
      <<Prog, <<"chat">>, <<"hi">>, <<"there">>>>,
      <<Prog, <<"analyze-image">>>>,
      <<Prog, <<"generate-image">>>>,
      <<Prog, <<"generate-image">>, <<"a">>, <<"cat">>>>,
      <<Prog, <<"frobnicate">>, <<"x">>>> }
    \cup { <<Prog, <<"analyze-image">>, p>> : p \in PathPool }

\* os.environ.get(name): None when unset, else the string, which may be empty
EnvPool ==
    { [GEMINI_API_KEY |-> None, GOOGLE_API_KEY |-> None],
      [GEMINI_API_KEY |-> Str(<<>>), GOOGLE_API_KEY |-> None],
      [GEMINI_API_KEY |-> None, GOOGLE_API_KEY |-> Str(<<"g">>)],
      [GEMINI_API_KEY |-> Str(<<"k">>), GOOGLE_API_KEY |-> Str(<<"g">>)] }

\* the word as typed: its segments joined by "/"
RECURSIVE WordStr(_)
WordStr(w) ==
    IF Len(w) = 0 THEN <<>>
    ELSE IF Len(w) = 1 THEN <<w[1]>>
    ELSE <<w[1], "/">> \o WordStr(Tail(w))

\* " ".join(args)
RECURSIVE JoinArgs(_)
JoinArgs(args) ==
    IF Len(args) = 0 THEN <<>>
    ELSE IF Len(args) = 1 THEN WordStr(args[1])
    ELSE WordStr(args[1]) \o <<" ">> \o JoinArgs(Tail(args))

\* PathOf with the path left as it was typed
PathAsTyped(w) == w

\* Path(path): a relative path drops its empty and "." segments; a path with
\* nothing left is "."
PathOf(w) ==
    LET kept == SelectSeq(w, LAMBDA seg : seg # "" /\ seg # ".") IN
    IF kept = <<>> THEN <<".">> ELSE kept

\* str(Path(path))
PathStr(w) == WordStr(PathOf(w))

(***************************************************************************)
(* The responses the remote service may give.                              *)
(***************************************************************************)
Chars(mime) ==
    CASE mime = "image/png" -> <<"i", "m", "a", "g", "e", "/", "p", "n", "g">>
      [] mime = "image/jpeg" -> <<"i", "m", "a", "g", "e", "/", "j", "p", "e", "g">>
      [] mime = "text/plain" -> <<"t", "e", "x", "t", "/", "p", "l", "a", "i", "n">>
      [] mime = "hi" -> <<"h", "i">>

Blob(mime, data) == Obj([mime_type |-> Str(Chars(mime)), data |-> data])

\* raw bytes under inline_data
PartRaw == Obj([inline_data |-> Blob("image/png", Bytes(<<1, 2>>))])
\* a bytearray under inlineData, inline_data being None
PartCamel ==
    Obj([inline_data |-> None, inlineData |-> Blob("image/jpeg", ByteArray(<<3>>))])
\* base64 text that decodes: "AQ==" is the byte 1
PartB64 == Obj([inlineData |-> Blob("image/png", Str(<<"A", "Q", "=", "=">>))])
\* base64 text with its padding missing
PartBadB64 == Obj([inline_data |-> Blob("image/png", Str(<<"A", "Q", "I">>))])
\* a text part: no inline data
PartText == Obj([text |-> Str(Chars("hi"))])
\* inline data that is no image
PartPlain == Obj([inline_data |-> Blob("text/plain", Bytes(<<7>>))])

\* image inline data that carries no data attribute
PartNoData == Obj([inline_data |-> Obj([mime_type |-> Str(Chars("image/png"))])])
\* inline data that is a number
PartJunk == Obj([inline_data |-> PyInt(3)])

PartPool ==
    { PartRaw, PartCamel, PartB64, PartBadB64, PartText, PartPlain, PartNoData,
      PartJunk }

CandOf(ps) == Obj([content |-> Obj([parts |-> List(ps)])])

\* candidates that carry no part list
OddCands ==
    { Obj([content |-> None]),
      Obj([content |-> Obj([parts |-> PyInt(7)])]) }

\* the candidates holding exactly k parts
CandsWith(k) ==
    IF k = 0 THEN OddCands \cup { CandOf(<<>>) }
    ELSE { CandOf(ps) : ps \in [1..k -> PartPool] }

\* the sequences of at most n candidates holding at most budget parts
RECURSIVE CandSeqs(_, _)
CandSeqs(n, budget) ==
    IF n = 0 THEN { <<>> }
    ELSE { <<>> } \cup
         UNION { { <<c>> \o rest : c \in CandsWith(k),
                                   rest \in CandSeqs(n - 1, budget - k) } :
                 k \in 0..budget }

\* the candidates attribute when it is no list with a candidate in it:
\* missing, None, a number, or the empty list
BareCandFields ==
    { <<>>, [candidates |-> None], [candidates |-> PyInt(5)],
      [candidates |-> List(<<>>)] }

\* the top-level image attribute: missing, bytes, empty bytes, or base64 text
ImageFields ==
    { <<>>, [image |-> Bytes(<<9>>)], [image |-> Bytes(<<>>)],
      [image |-> Str(<<"A", "Q", "=", "=">>)] }

\* the text attribute of a generate_content response: missing, None, empty, text
TextResponses ==
    { Obj(<<>>), Obj([text |-> None]), Obj([text |-> Str(<<>>)]),
      Obj([text |-> Str(Chars("hi"))]) }

Uploaded == Obj([uri |-> Str(<<"u">>), mime_type |-> Str(Chars("image/jpeg"))])

\* datetime.now().strftime("%Y%m%d-%H%M%S")
Timestamps == { "20240101-000000", "20240101-000001" }

(***************************************************************************)
(* The state of one invocation.                                            *)
(***************************************************************************)
VARIABLES
    argv,       \* sys.argv
    env,        \* os.environ: GEMINI_API_KEY and GOOGLE_API_KEY
    exists,     \* whether the path given to analyze-image exists
    pc,         \* the position in the program
    out,        \* the lines printed, one per print call
    exitCode,   \* the exit code of the process, -1 while it runs
    exc,        \* the exception that ended the invocation, "" for none
    clients,    \* the number of genai.Client objects constructed
    calls,      \* the requests sent to the remote service, in order
    resp,       \* the response of generate_content, None before it returns
    uploaded,   \* the result of files.upload, None before it returns
    parts,      \* generate_image: the parts gathered from the candidates
    pi,         \* generate_image: the index of the next part to examine
    images,     \* generate_image: the payloads extracted
    files,      \* the files written, in order
    dirs,       \* the directories created
    fault,      \* where extraction swallowed an exception: "none", "gather", "part"
    faultAt,    \* the index of the part at which it did, 0 for none
    trav,       \* the payloads the traversal of candidates and parts produced
    consulted   \* whether the top-level image field was read

vars == << argv, env, exists, pc, out, exitCode, exc, clients, calls, resp,
           uploaded, parts, pi, images, files, dirs, fault, faultAt, trav,
           consulted >>

extraction == << parts, pi, images, fault, faultAt, trav, consulted >>

\* argv[1] and argv[2:] of the code (sequences are 1-based here)
Cmd == IF Len(argv) >= 2 THEN argv[2] ELSE <<>>
Args == IF Len(argv) >= 2 THEN SubSeq(argv, 3, Len(argv)) ELSE <<>>

UsageText ==
    << "Usage:", "\n",
       "  python simple_assistant.py chat <message>", "\n",
       "  python simple_assistant.py analyze-image <path>", "\n",
       "  python simple_assistant.py generate-image <prompt>", "\n",
       "  python simple_assistant.py help" >>

KeyGuidance ==
    << <<"Error: GEMINI_API_KEY is not set. Set it in this PowerShell session and try again.">>,
       <<"Example: $env:GEMINI_API_KEY = \"YOUR_API_KEY\"">> >>

NoResponse == <<"(", "n", "o", " ", "r", "e", "s", "p", "o", "n", "s", "e", ")">>

NoImageMessage == <<"No image returned. Check API key, model access, and quota.">>

MODEL_TEXT == "gemini-2.5-flash"
MODEL_IMAGE == "imagen-3.0-generate-002"

Init ==
    /\ argv \in ArgvPool
    /\ env \in EnvPool
    /\ exists \in (IF Len(argv) = 3 /\ argv[2] = <<"analyze-image">>
                   THEN BOOLEAN ELSE { FALSE })
    /\ pc = "main"
    /\ out = <<>>
    /\ exitCode = -1
    /\ exc = ""
    /\ clients = 0
    /\ calls = <<>>
    /\ resp = None
    /\ uploaded = None
    /\ parts = <<>>
    /\ pi = 1
    /\ images = <<>>
    /\ files = <<>>
    /\ dirs = {}
    /\ fault = "none"
    /\ faultAt = 0
    /\ trav = <<>>
    /\ consulted = FALSE

\* the process ends with this exit code
Exit(code, e) ==
    /\ pc' = "exit"
    /\ exitCode' = code
    /\ exc' = e

\* lines 121-145: main up to the call of the command's function
Main ==
    /\ pc = "main"
    /\ UNCHANGED << argv, env, exists, clients, calls, resp, uploaded, files, dirs,
                    extraction >>
    /\ IF Len(argv) < 2 \/ argv[2] \in { <<"-h">>, <<"--help">>, <<"help">> }
       THEN /\ out' = Append(out, UsageText)
            /\ Exit(IF Len(argv) < 2 THEN 1 ELSE 0, "")
       ELSE CASE Cmd = <<"chat">> ->
                   IF Args = <<>>
                   THEN out' = Append(out, <<"Provide a message.">>) /\ Exit(1, "")
                   ELSE out' = out /\ pc' = "chat" /\ UNCHANGED << exitCode, exc >>
              [] Cmd = <<"analyze-image">> ->
                   IF Args = <<>>
                   THEN /\ out' = Append(out,
                               <<"Usage: python simple_assistant.py analyze-image <path>">>)
                        /\ Exit(1, "")
                   ELSE out' = out /\ pc' = "analyze_image" /\ UNCHANGED << exitCode, exc >>
              [] Cmd = <<"generate-image">> ->
                   IF Args = <<>>
                   THEN /\ out' = Append(out,
                               <<"Usage: python simple_assistant.py generate-image <prompt>">>)
                        /\ Exit(1, "")
                   ELSE out' = out /\ pc' = "generate_image" /\ UNCHANGED << exitCode, exc >>
              [] OTHER ->
                   /\ out' = Append(out,
                          <<"Unknown command. Try: python simple_assistant.py help">>)
                   /\ Exit(1, "")

\* line 15: not os.environ.get("GEMINI_API_KEY")
KeyMissing(e) == ~Truthy(e.GEMINI_API_KEY)

\* line 22: the key the client is given
ClientKey(e) == PyOr(e.GEMINI_API_KEY, e.GOOGLE_API_KEY)

\* lines 14-18, called first by chat, analyze_image and generate_image
RequireApiKey ==
    /\ pc \in { "chat", "analyze_image", "generate_image" }
    /\ UNCHANGED << argv, env, exists, clients, calls, resp, uploaded, files, dirs,
                    extraction >>
    /\ IF KeyMissing(env)
       THEN out' = out \o KeyGuidance /\ Exit(2, "SystemExit")
       ELSE /\ out' = out
            /\ pc' = CASE pc = "chat" -> "chat_call"
                       [] pc = "analyze_image" -> "analyze_path"
                       [] OTHER -> "generate_call"
            /\ UNCHANGED << exitCode, exc >>

\* what print(getattr(resp, "text", "(no response)")) prints
TextLine(r) == PyStr(GetAttr(r, "text", Str(NoResponse)))

Request(op, model, arg) == [op |-> op, model |-> model, arg |-> arg]

\* line 27: the request of chat, which returns, raises, or is interrupted
ChatCall ==
    /\ pc = "chat_call"
    /\ clients' = clients + 1
    /\ calls' = Append(calls, Request("generate_content", MODEL_TEXT, JoinArgs(Args)))
    /\ UNCHANGED << argv, env, exists, out, uploaded, files, dirs, extraction >>
    /\ \/ \E r \in TextResponses :
             resp' = r /\ pc' = "chat_print" /\ UNCHANGED << exitCode, exc >>
       \/ resp' = resp /\ Exit(1, "Exception")
       \/ resp' = resp /\ Exit(130, "")

\* lines 28-29
ChatPrint ==
    /\ pc = "chat_print"
    /\ out' = Append(out, TextLine(resp))
    /\ Exit(0, "")
    /\ UNCHANGED << argv, env, exists, clients, calls, resp, uploaded, files, dirs,
                    extraction >>

\* lines 34-37
AnalyzePath ==
    /\ pc = "analyze_path"
    /\ UNCHANGED << argv, env, exists, clients, calls, resp, uploaded, files, dirs,
                    extraction >>
    /\ IF ~exists
       THEN /\ out' = Append(out, <<"File not found: ">> \o PathStr(Args[1]))
            /\ Exit(1, "")
       ELSE out' = out /\ pc' = "analyze_upload" /\ UNCHANGED << exitCode, exc >>

\* lines 38-39
AnalyzeUpload ==
    /\ pc = "analyze_upload"
    /\ clients' = clients + 1
    /\ calls' = Append(calls, Request("files.upload", "", PathStr(Args[1])))
    /\ UNCHANGED << argv, env, exists, out, resp, files, dirs, extraction >>
    /\ \/ uploaded' = Uploaded /\ pc' = "analyze_call" /\ UNCHANGED << exitCode, exc >>
       \/ uploaded' = uploaded /\ Exit(1, "Exception")
       \/ uploaded' = uploaded /\ Exit(130, "")

\* lines 40-51
AnalyzeCall ==
    /\ pc = "analyze_call"
    /\ calls' = Append(calls,
          Request("generate_content", MODEL_TEXT, GetAttr(uploaded, "uri", None).v))
    /\ UNCHANGED << argv, env, exists, out, clients, uploaded, files, dirs, extraction >>
    /\ \/ \E r \in TextResponses :
             resp' = r /\ pc' = "analyze_print" /\ UNCHANGED << exitCode, exc >>
       \/ resp' = resp /\ Exit(1, "Exception")
       \/ resp' = resp /\ Exit(130, "")

\* lines 52-53
AnalyzePrint ==
    /\ pc = "analyze_print"
    /\ out' = Append(out, TextLine(resp))
    /\ Exit(0, "")
    /\ UNCHANGED << argv, env, exists, clients, calls, resp, uploaded, files, dirs,
                    extraction >>

(***************************************************************************)
(* generate_image.                                                         *)
(***************************************************************************)
OutDir == <<"outputs">>

\* the responses generate_content may give to generate_image: any object
\* with an image attribute of ImageFields and either a candidates attribute of
\* BareCandFields or a list of 1..MaxCands candidates holding at most MaxParts
\* parts
Receives(r) ==
    \E i \in ImageFields :
       \/ \E c \in BareCandFields : r = Obj(c @@ i)
       \/ \E k \in 0..MaxParts :
            \E c \in CandsWith(k), rest \in CandSeqs(MaxCands - 1, MaxParts - k) :
               r = Obj([candidates |-> List(<<c>> \o rest)] @@ i)

\* GenerateCall sending the request again after a failure
GenerateCallRetry ==
    /\ pc = "generate_call"
    /\ dirs' = dirs \cup { OutDir }
    /\ clients' = clients + 1
    /\ calls' = Append(calls, Request("generate_content", MODEL_IMAGE, JoinArgs(Args)))
    /\ UNCHANGED << argv, env, exists, uploaded, files, extraction >>
    /\ \/ /\ Receives(resp')
          /\ out' = out
          /\ pc' = "gather"
          /\ UNCHANGED << exitCode, exc >>
       \/ /\ resp' = resp
          /\ out' = Append(out, <<"Image generation request failed: ", "e">>)
          /\ IF Len(calls) < 2 THEN pc' = pc /\ UNCHANGED << exitCode, exc >>
                               ELSE Exit(1, "")
       \/ resp' = resp /\ out' = out /\ Exit(130, "")

\* lines 58-68: mkdir, the client and the request; a failure of the request
\* is caught and reported, an interrupt is left to main
GenerateCall ==
    /\ pc = "generate_call"
    /\ dirs' = dirs \cup { OutDir }
    /\ clients' = clients + 1
    /\ calls' = Append(calls, Request("generate_content", MODEL_IMAGE, JoinArgs(Args)))
    /\ UNCHANGED << argv, env, exists, uploaded, files, extraction >>
    /\ \/ /\ Receives(resp')
          /\ out' = out
          /\ pc' = "gather"
          /\ UNCHANGED << exitCode, exc >>
       \/ /\ resp' = resp
          /\ out' = Append(out, <<"Image generation request failed: ", "e">>)
          /\ Exit(1, "")
       \/ resp' = resp /\ out' = out /\ Exit(130, "")

\* lines 70-76 (and 86-87 when the loop raises): gather the parts
Gather ==
    /\ pc = "gather"
    /\ LET g == GatherParts(resp) IN
       /\ images' = <<>>
       /\ pi' = 1
       /\ parts' = g.parts
       /\ fault' = IF g.ok THEN fault ELSE "gather"
       /\ pc' = IF g.ok /\ g.parts # <<>> THEN "parts" ELSE "fallback"
    /\ trav' = <<>>
    /\ UNCHANGED << argv, env, exists, out, exitCode, exc, clients, calls, resp,
                    uploaded, files, dirs, faultAt, consulted >>

\* AfterPart with the try moved inside the loop, so that it goes on
AfterPartContinue(act, i, n) == IF i = n THEN "fallback" ELSE "parts"

\* where the loop over the parts goes after part i of n: an exception leaves
\* the try block, the last part ends the loop
AfterPart(act, i, n) ==
    IF act = "raise" \/ i = n THEN "fallback" ELSE "parts"

\* lines 77-85 (and 86-87 when b64decode raises): one iteration of the loop
\* over the gathered parts
ExaminePart ==
    /\ pc = "parts"
    /\ LET r == PartPayload(parts[pi]) IN
       /\ images' = IF r.act = "append" THEN Append(images, r.v) ELSE images
       /\ pi' = pi + 1
       /\ fault' = IF r.act = "raise" THEN "part" ELSE fault
       /\ faultAt' = IF r.act = "raise" /\ faultAt = 0 THEN pi ELSE faultAt
       /\ pc' = AfterPart(r.act, pi, Len(parts))
    /\ trav' = images'
    /\ UNCHANGED << argv, env, exists, out, exitCode, exc, clients, calls, resp,
                    uploaded, files, dirs, parts, consulted >>

\* lines 90-93
Fallback ==
    /\ pc = "fallback"
    /\ LET t == TopLevel(images, resp) IN
       /\ images' = t.images
       /\ consulted' = t.consulted
    /\ pc' = "save"
    /\ UNCHANGED << argv, env, exists, out, exitCode, exc, clients, calls, resp,
                    uploaded, files, dirs, parts, pi, fault, faultAt, trav >>

\* Kept taking the last image
KeptLast(imgs) == imgs[Len(imgs)]

\* line 101: images[0]
Kept(imgs) == imgs[1]

\* lines 95-103, returning code when there is no image
SaveReturning(code) ==
    /\ pc = "save"
    /\ UNCHANGED << argv, env, exists, clients, calls, resp, uploaded, dirs,
                    extraction >>
    /\ IF images = <<>>
       THEN /\ out' = Append(out, NoImageMessage)
            /\ files' = files
            /\ Exit(code, "")
       ELSE \E ts \in Timestamps :
              LET out_path == OutDir \o <<"gen-" \o ts \o ".png">> IN
              IF Writable(Kept(images))
              THEN /\ files' = Append(files,
                          [path |-> out_path, content |-> Kept(images).v])
                   /\ out' = Append(out, <<"Saved: ">> \o WordStr(PathOf(out_path)))
                   /\ Exit(0, "")
              ELSE /\ files' = files
                   /\ out' = out
                   /\ Exit(1, "TypeError")

\* Save reporting success when there is no image
SaveZero == SaveReturning(0)

\* lines 95-103
Save == SaveReturning(1)

Next ==
    \/ Main
    \/ RequireApiKey
    \/ ChatCall
    \/ ChatPrint
    \/ AnalyzePath
    \/ AnalyzeUpload
    \/ AnalyzeCall
    \/ AnalyzePrint
    \/ GenerateCall
    \/ Gather
    \/ ExaminePart
    \/ Fallback
    \/ Save

Spec == Init /\ [][Next]_vars

(***************************************************************************)
(* What the specification says of a response, stated on the response       *)
(* itself and not through the functions above.                             *)
(***************************************************************************)
Has(x, name) == x.k = "obj" /\ name \in DOMAIN x.f

\* a and b are the same Python value
SameVal(a, b) == a.k = b.k /\ a.v = b.v

SameSeq(s, t) ==
    Len(s) = Len(t) /\ \A i \in 1..Len(s) : SameVal(s[i], t[i])

\* the candidates of a response, when it has a list of them
CandList(r) ==
    IF Has(r, "candidates") /\ r.f["candidates"].k = "list"
    THEN r.f["candidates"].v ELSE <<>>

\* the parts of a candidate, when its content has a list of them
PartList(c) ==
    IF Has(c, "content") /\ Has(c.f["content"], "parts")
       /\ c.f["content"].f["parts"].k = "list"
    THEN c.f["content"].f["parts"].v ELSE <<>>

\* the parts of a response: candidates in order, each one's parts in order
RECURSIVE PartsFrom(_, _)
PartsFrom(cs, i) ==
    IF i > Len(cs) THEN <<>> ELSE PartList(cs[i]) \o PartsFrom(cs, i + 1)

AllParts(r) == PartsFrom(CandList(r), 1)

\* the inline data of a part, under either name
BlobOf(p) ==
    IF Has(p, "inline_data") /\ p.f["inline_data"].k = "obj" THEN p.f["inline_data"]
    ELSE IF Has(p, "inlineData") /\ p.f["inlineData"].k = "obj" THEN p.f["inlineData"]
    ELSE None

\* inline data whose MIME type starts with "image/"
IsImageBlob(d) ==
    /\ Has(d, "mime_type")
    /\ d.f["mime_type"].k = "str"
    /\ Len(d.f["mime_type"].v) >= 6
    /\ \A i \in 1..6 : d.f["mime_type"].v[i] = ImagePrefix[i]

HasRawData(d) == Has(d, "data") /\ d.f["data"].k \in {"bytes", "bytearray"}

HasTextData(d) == Has(d, "data") /\ d.f["data"].k = "str"

\* every image-bearing part carries its data as raw bytes
RawOnly(r) ==
    \A i \in 1..Len(AllParts(r)) :
       IsImageBlob(BlobOf(AllParts(r)[i])) => HasRawData(BlobOf(AllParts(r)[i]))

\* the raw byte sequences of the image-bearing parts, in order
RECURSIVE RawPayloads(_)
RawPayloads(ps) ==
    IF ps = <<>> THEN <<>>
    ELSE (IF IsImageBlob(BlobOf(Head(ps))) /\ HasRawData(BlobOf(Head(ps)))
          THEN << Bytes(BlobOf(Head(ps)).f["data"].v) >> ELSE <<>>)
         \o RawPayloads(Tail(ps))

\* no candidate has a parts field that cannot be iterated
PartsAreLists(r) ==
    \A i \in 1..Len(CandList(r)) :
       LET c == CandList(r)[i] IN
       (Has(c, "content") /\ Has(c.f["content"], "parts"))
           => c.f["content"].f["parts"].k \in {"list", "none"}

\* no part of the response bears image data, as bytes or as text
NoImageParts(r) ==
    \A i \in 1..Len(AllParts(r)) :
       LET d == BlobOf(AllParts(r)[i]) IN
       ~(IsImageBlob(d) /\ (HasRawData(d) \/ HasTextData(d)))

\* the top-level image field is there and not empty
TopPresent(r) ==
    /\ Has(r, "image")
    /\ r.f["image"].k # "none"
    /\ r.f["image"].k \in {"bytes", "bytearray", "str", "list"} => Len(r.f["image"].v) > 0

\* the top-level image field is there, as bytes and not empty
TopBytes(r) == TopPresent(r) /\ r.f["image"].k \in {"bytes", "bytearray"}

IsGenerate == Len(argv) >= 3 /\ argv[2] = <<"generate-image">>
IsChat == Len(argv) >= 3 /\ argv[2] = <<"chat">>
IsAnalyze == Len(argv) >= 3 /\ argv[2] = <<"analyze-image">>

\* an environment variable is unset or empty
Absent(x) == x.k = "none" \/ x.v = <<>>

(***************************************************************************)
(* C1.  Extraction never raises, whatever the shape of the response, and   *)
(* a response with nothing but absent, empty or wrongly typed fields       *)
(* yields zero payloads: when extraction is over (pc = "save") no          *)
(* exception has escaped, and if no part bears image data and the          *)
(* top-level image field is not a non-empty byte string, images is empty.  *)
(* The code hands a wrongly typed top-level image on as a payload.         *)
(***************************************************************************)
C1_ExtractionYieldsNothingOnBadShape ==
    pc = "save" =>
       /\ exc = ""
       /\ (NoImageParts(resp) /\ ~TopBytes(resp)) => images = <<>>

(***************************************************************************)
(* C2.  As stated: after the traversal of candidates and parts (before the *)
(* top-level fallback), a response whose image-bearing parts all carry raw *)
(* bytes has yielded exactly those byte sequences, in order.               *)
(***************************************************************************)
C2_RawBytesUnchanged ==
    (pc = "fallback" /\ RawOnly(resp)) => SameSeq(images, RawPayloads(AllParts(resp)))

(***************************************************************************)
(* C2, amended: the same, for the responses in which no candidate's parts  *)
(* field is a value that cannot be iterated.                               *)
(***************************************************************************)
C2_RawBytesUnchangedWhenGathered ==
    (pc = "fallback" /\ RawOnly(resp) /\ PartsAreLists(resp))
        => SameSeq(images, RawPayloads(AllParts(resp)))

\* two different payloads, from two candidates, have been returned in order
C2_Witness ==
    /\ pc = "fallback"
    /\ RawOnly(resp) /\ PartsAreLists(resp)
    /\ Len(CandList(resp)) = 2
    /\ Len(PartList(CandList(resp)[1])) = 1
    /\ Len(images) = 2
    /\ images[1].v # images[2].v

(***************************************************************************)
(* C3.  After the fallback: the top-level image field was read only if the *)
(* traversal produced nothing; what the traversal produced is returned     *)
(* unchanged when it is not empty; and a response whose only image-bearing *)
(* field is the top-level one yields exactly that one payload.             *)
(***************************************************************************)
C3_TopLevelOnlyAsFallback ==
    pc = "save" =>
       /\ consulted => trav = <<>>
       /\ trav # <<>> => (~consulted /\ SameSeq(images, trav))
       /\ (NoImageParts(resp) /\ TopPresent(resp))
             => (Len(images) = 1 /\ SameVal(images[1], resp.f["image"]))

\* the candidates held parts but no image, and the top-level image was taken
C3_Witness ==
    /\ pc = "save"
    /\ Len(AllParts(resp)) > 0
    /\ NoImageParts(resp)
    /\ consulted
    /\ Len(images) = 1
    /\ SameVal(images[1], Bytes(<<9>>))

(***************************************************************************)
(* C4.  generate-image, given a response from which nothing is extracted,  *)
(* prints the "No image returned" message, exits with 1, raises nothing    *)
(* and writes no file; a response with no image part and no top-level      *)
(* image field is such a response.                                         *)
(***************************************************************************)
C4_NoImageIsExitOne ==
    (pc = "exit" /\ IsGenerate /\ resp.k = "obj") =>
       /\ (NoImageParts(resp) /\ ~Has(resp, "image")) => images = <<>>
       /\ images = <<>> =>
             /\ out = << NoImageMessage >>
             /\ exitCode = 1
             /\ exc = ""
             /\ files = <<>>

\* a response with candidates and parts but no image anywhere ended with 1
C4_Witness ==
    /\ pc = "exit" /\ IsGenerate /\ resp.k = "obj"
    /\ Len(AllParts(resp)) > 0
    /\ ~Has(resp, "image")
    /\ images = <<>>
    /\ exitCode = 1

(***************************************************************************)
(* C5.  chat, analyze-image and generate-image, given their argument: if   *)
(* GEMINI_API_KEY is absent the invocation prints the guidance and exits   *)
(* with 2 before a client is made or a request sent; and if the key the    *)
(* client uses is present, the invocation does not exit with 2.  The code  *)
(* exits with 2 when only GOOGLE_API_KEY, which the client accepts, is set.*)
(***************************************************************************)
C5_ExitTwoIffNoKey ==
    (pc = "exit" /\ (IsChat \/ IsAnalyze \/ IsGenerate)) =>
       /\ Absent(env.GEMINI_API_KEY) =>
             (exitCode = 2 /\ out = KeyGuidance /\ clients = 0 /\ calls = <<>>)
       /\ (~Absent(env.GEMINI_API_KEY) \/ ~Absent(env.GOOGLE_API_KEY)) => exitCode # 2

(***************************************************************************)
(* C6.  As stated: analyze-image on a path that does not exist exits with  *)
(* 1, prints "File not found: " and the path, and sends nothing.           *)
(***************************************************************************)
C6_MissingFileIsExitOne ==
    (pc = "exit" /\ IsAnalyze /\ ~exists) =>
       /\ exitCode = 1
       /\ out = << <<"File not found: ">> \o WordStr(argv[3]) >>
       /\ calls = <<>>

\* the path as pathlib prints it: without its empty and "." segments
RECURSIVE Cleaned(_)
Cleaned(w) ==
    IF w = <<>> THEN <<>>
    ELSE IF Head(w) \in {"", "."} THEN Cleaned(Tail(w))
    ELSE <<Head(w)>> \o Cleaned(Tail(w))

\* its segments joined by "/"
RECURSIVE Slashed(_)
Slashed(w) ==
    IF Len(w) <= 1 THEN w ELSE <<Head(w), "/">> \o Slashed(Tail(w))

(***************************************************************************)
(* C6, amended: with GEMINI_API_KEY set, analyze-image on a path that does *)
(* not exist exits with 1, prints "File not found: " and the path as       *)
(* pathlib normalises it, makes no client and sends nothing.               *)
(***************************************************************************)
C6_MissingFileIsExitOneWithKey ==
    (pc = "exit" /\ IsAnalyze /\ ~exists /\ ~Absent(env.GEMINI_API_KEY)) =>
       /\ exitCode = 1
       /\ exc = ""
       /\ out = << <<"File not found: ">> \o Slashed(Cleaned(argv[3])) >>
       /\ clients = 0
       /\ calls = <<>>

\* "./missing.jpg" was reported missing as "missing.jpg"
C6_Witness ==
    /\ pc = "exit" /\ IsAnalyze /\ ~exists /\ ~Absent(env.GEMINI_API_KEY)
    /\ argv[3] = <<".", "missing.jpg">>
    /\ out = << <<"File not found: ", "missing.jpg">> >>
    /\ exitCode = 1

(***************************************************************************)
(* C7.  As stated: an invocation makes at most one call to the remote      *)
(* service.                                                                *)
(***************************************************************************)
C7_AtMostOneCall == Len(calls) <= 1

(***************************************************************************)
(* C7, amended: an invocation makes at most two calls to the remote        *)
(* service and none twice: analyze-image uploads the file and then sends   *)
(* one generation request, chat and generate-image send at most one        *)
(* generation request, and every other invocation sends nothing.           *)
(***************************************************************************)
C7_NoCallTwice ==
    /\ Len(calls) <= 2
    /\ Len(calls) = 2 =>
          (IsAnalyze /\ calls[1].op = "files.upload"
                     /\ calls[2].op = "generate_content")
    /\ Len(calls) = 1 =>
          \/ IsAnalyze /\ calls[1].op = "files.upload"
          \/ (IsChat \/ IsGenerate) /\ calls[1].op = "generate_content"

\* analyze-image has uploaded the file and sent its generation request
C7_Witness ==
    /\ pc = "exit" /\ IsAnalyze
    /\ Len(calls) = 2
    /\ exitCode = 0

\* the request of generate-image failed: its message is the last line printed
RequestFailed ==
    /\ out # <<>>
    /\ out[Len(out)][1] = "Image generation request failed: "

\* the names gen-<timestamp>.png under outputs/
OutputNames == { <<"outputs", "gen-" \o ts \o ".png">> : ts \in Timestamps }

(***************************************************************************)
(* C8.  generate-image writes at most one file; it ends with 0 exactly     *)
(* when it has written one file, outputs/gen-<timestamp>.png, holding the  *)
(* first payload extracted; it returns 1 and writes nothing when the       *)
(* request failed or no payload was found; no other invocation writes.     *)
(***************************************************************************)
C8_OneFileFirstPayload ==
    /\ Len(files) <= 1
    /\ files # <<>> => IsGenerate
    /\ (pc = "exit" /\ IsGenerate) =>
          /\ (exitCode = 0 /\ exc = "") <=> Len(files) = 1
          /\ Len(files) = 1 =>
                /\ files[1].path \in OutputNames
                /\ files[1].content = images[1].v
                /\ images[1].k = "bytes"
                /\ trav # <<>> => files[1].content = trav[1].v
                /\ OutDir \in dirs
          /\ (RequestFailed \/ (resp.k = "obj" /\ images = <<>>)) =>
                (exitCode = 1 /\ exc = "" /\ files = <<>>)

\* two payloads were extracted and the first one was written
C8_Witness ==
    /\ pc = "exit" /\ IsGenerate
    /\ Len(images) = 2
    /\ images[1].v # images[2].v
    /\ Len(files) = 1
    /\ files[1].content = images[1].v
    /\ exitCode = 0

\* the response carries no generated text: no text field, None, or ""
NoText(r) == ~Has(r, "text") \/ r.f["text"].k = "none" \/ r.f["text"].v = <<>>

(***************************************************************************)
(* C9.  chat, once the request has returned a response that carries no     *)
(* generated text, prints exactly "(no response)" and ends with 0.  The    *)
(* code prints "None" for a text field that is None and an empty line for  *)
(* one that is empty.                                                      *)
(***************************************************************************)
C9_NoTextPrintsNoResponse ==
    (pc = "exit" /\ IsChat /\ resp.k = "obj" /\ NoText(resp)) =>
       (out = << NoResponse >> /\ exitCode = 0)

\* the payloads the first n of the gathered parts yield
RECURSIVE Collected(_, _)
Collected(ps, n) ==
    IF n = 0 THEN <<>>
    ELSE Collected(ps, n - 1)
         \o (IF PartPayload(ps[n]).act = "append" THEN << PartPayload(ps[n]).v >>
             ELSE <<>>)

(***************************************************************************)
(* C10.  Once extracting from part k of the gathered parts has raised: the *)
(* exception is swallowed, no later part is examined, the traversal's      *)
(* result is what the parts before k yielded, in order, and after the      *)
(* fallback the top-level image was read exactly if that result is empty,  *)
(* a result that is not empty being returned as it is.                     *)
(***************************************************************************)
C10_FaultStopsTheLoop ==
    fault = "part" =>
       /\ exc \in {"", "TypeError"}
       /\ faultAt \in 1..Len(parts)
       /\ PartPayload(parts[faultAt]).act = "raise"
       /\ pi = faultAt + 1
       /\ pc # "parts"
       /\ SameSeq(trav, Collected(parts, faultAt - 1))
       /\ pc \in {"save", "exit"} =>
             /\ consulted <=> trav = <<>>
             /\ trav # <<>> => SameSeq(images, trav)

\* a part with a valid image came after the faulty one and was left out
C10_Witness ==
    /\ pc = "save"
    /\ fault = "part"
    /\ faultAt < Len(parts)
    /\ PartPayload(parts[faultAt + 1]).act = "append"
    /\ images = <<>>

====
